---- MODULE Spec2Model ----
(***************************************************************************)
(* Model of remote.py: deploy a local tree over sftp, run a remote         *)
(* command, copy result files back.                                        *)
(*                                                                         *)
(* Python strings (paths, names, patterns) are sequences of one-character  *)
(* strings, so that basename, join, abspath, slicing and fnmatch are       *)
(* computed character by character as the library computes them.           *)
(***************************************************************************)
EXTENDS Integers, Sequences, FiniteSets, TLC

\* ------------------------------------------------------------------ bounds
MaxRuns == 2      \* invocations of main against the same remote host
MaxFaults == 1    \* transport faults injected over all invocations

\* ----------------------------------------------------------- string helpers
SEP == "/"

RECURSIVE SplitAcc(_, _, _)
SplitAcc(s, cur, acc) ==
    IF s = <<>> THEN Append(acc, cur)
    ELSE IF Head(s) = SEP THEN SplitAcc(Tail(s), <<>>, Append(acc, cur))
    ELSE SplitAcc(Tail(s), Append(cur, Head(s)), acc)

\* str.split('/') : the list of fields between separators (may be empty)
Split(s) == SplitAcc(s, <<>>, <<>>)

RECURSIVE JoinSep(_)
JoinSep(comps) ==
    IF comps = <<>> THEN <<>>
    ELSE IF Len(comps) = 1 THEN Head(comps)
    ELSE Head(comps) \o <<SEP>> \o JoinSep(Tail(comps))

\* s[n:]
DropFirst(s, n) == IF n >= Len(s) THEN <<>> ELSE SubSeq(s, n + 1, Len(s))

\* os.path.basename : everything after the last separator
basename(p) ==
    LET fields == Split(p) IN fields[Len(fields)]

\* os.path.join(a, b)
join(a, b) ==
    IF b # <<>> /\ Head(b) = SEP THEN b
    ELSE IF a = <<>> \/ a[Len(a)] = SEP THEN a \o b
    ELSE a \o <<SEP>> \o b

RECURSIVE NormComps(_, _)
NormComps(fields, acc) ==
    IF fields = <<>> THEN acc
    ELSE LET f == Head(fields) IN
         IF f = <<>> \/ f = <<".">> THEN NormComps(Tail(fields), acc)
         ELSE IF f = <<".", ".">>
              THEN NormComps(Tail(fields),
                             IF acc = <<>> THEN acc ELSE SubSeq(acc, 1, Len(acc) - 1))
         ELSE NormComps(Tail(fields), Append(acc, f))

\* the local working directory of the process
Cwd == <<"/", "w">>

\* os.path.abspath : normpath(join(cwd, p)); the result is absolute
abspath(p) == <<SEP>> \o JoinSep(NormComps(Split(join(Cwd, p)), <<>>))

\* --------------------------------------------------------------- fnmatch
\* collating order of the characters used in names and patterns
Alphabet == <<"!", "*", "-", ".", "/", "?", "[", "]",
              "a", "b", "c", "d", "e", "f", "g", "m", "p", "q", "s", "t", "w", "x">>

Ord(c) == CHOOSE i \in 1..Len(Alphabet) : Alphabet[i] = c

\* fnmatch.translate: index of the ']' closing the class opened at pat[1] = '[',
\* or 0 when the bracket is not closed (it is then a literal '[')
RECURSIVE ScanClose(_, _)
ScanClose(pat, j) ==
    IF j > Len(pat) THEN 0
    ELSE IF pat[j] = "]" THEN j
    ELSE ScanClose(pat, j + 1)

ClassEnd(pat) ==
    LET j1 == IF Len(pat) >= 2 /\ pat[2] = "!" THEN 3 ELSE 2
        j2 == IF j1 <= Len(pat) /\ pat[j1] = "]" THEN j1 + 1 ELSE j1
    IN ScanClose(pat, j2)

\* membership of character c in the class body (ranges lo-hi included)
RECURSIVE InClass(_, _)
InClass(c, stuff) ==
    IF stuff = <<>> THEN FALSE
    ELSE IF Len(stuff) >= 3 /\ stuff[2] = "-"
         THEN (Ord(stuff[1]) <= Ord(c) /\ Ord(c) <= Ord(stuff[3]))
              \/ InClass(c, DropFirst(stuff, 3))
    ELSE c = Head(stuff) \/ InClass(c, Tail(stuff))

\* fnmatch.fnmatch(name, pat) on posix: the whole name must match
RECURSIVE fnmatch(_, _)
fnmatch(name, pat) ==
    IF pat = <<>> THEN name = <<>>
    ELSE IF Head(pat) = "*"
         THEN fnmatch(name, Tail(pat))
              \/ (name # <<>> /\ fnmatch(Tail(name), pat))
    ELSE IF Head(pat) = "?"
         THEN name # <<>> /\ fnmatch(Tail(name), Tail(pat))
    ELSE IF Head(pat) = "[" /\ ClassEnd(pat) # 0
         THEN LET j == ClassEnd(pat)
                  neg == pat[2] = "!"
                  stuff == SubSeq(pat, IF neg THEN 3 ELSE 2, j - 1)
              IN /\ name # <<>>
                 /\ (InClass(Head(name), stuff) # neg)
                 /\ fnmatch(Tail(name), DropFirst(pat, j))
    ELSE name # <<>> /\ Head(name) = Head(pat) /\ fnmatch(Tail(name), Tail(pat))

\* ------------------------------------------------------- the local machine
\* names used in the local tree, the configuration and the patterns
n_p == <<"p">>
n_s == <<"s">>
n_q == <<"q">>
n_d == <<"d">>
n_xm == <<"x", ".", "m">>
f_at == <<"a", ".", "t">>
f_bm == <<"b", ".", "m">>
f_ct == <<"c", ".", "t">>
f_dt == <<"d", ".", "t">>
f_et == <<"e", ".", "t">>
f_ft == <<"f", ".", "t">>
f_gt == <<"g", ".", "t">>

\* The local file system below Cwd, as os.scandir reports it: for every
\* directory its subdirectories and its files, in listing order.
\*   /w/p/{a.t, b.m, s/{c.t, q/{e.t}}, x.m/{d.t, s/{g.t}}}    /w/s/{f.t}
LocalFS ==
    { [path |-> Cwd \o <<SEP>> \o n_p,
       dirs |-> <<n_s, n_xm>>, files |-> <<f_at, f_bm>>],
      [path |-> Cwd \o <<SEP>> \o n_p \o <<SEP>> \o n_s,
       dirs |-> <<n_q>>, files |-> <<f_ct>>],
      [path |-> Cwd \o <<SEP>> \o n_p \o <<SEP>> \o n_s \o <<SEP>> \o n_q,
       dirs |-> <<>>, files |-> <<f_et>>],
      [path |-> Cwd \o <<SEP>> \o n_p \o <<SEP>> \o n_xm,
       dirs |-> <<n_s>>, files |-> <<f_dt>>],
      [path |-> Cwd \o <<SEP>> \o n_p \o <<SEP>> \o n_xm \o <<SEP>> \o n_s,
       dirs |-> <<>>, files |-> <<f_gt>>],
      [path |-> Cwd \o <<SEP>> \o n_s,
       dirs |-> <<>>, files |-> <<f_ft>>] }

IsLocalDir(path) == \E e \in LocalFS : e.path = path
scandir(path) == CHOOSE e \in LocalFS : e.path = path
LocalDirnames(path) == IF IsLocalDir(path) THEN scandir(path).dirs ELSE <<>>
LocalFilenames(path) == IF IsLocalDir(path) THEN scandir(path).files ELSE <<>>

\* ------------------------------------------------------ the remote machine
\* A remote path names the node reached by its non-empty fields from the
\* login directory; <<>> is the login directory itself.
RemoteNode(path) == NormComps(Split(path), <<>>)
ParentNode(node) == IF node = <<>> THEN <<>> ELSE SubSeq(node, 1, Len(node) - 1)

\* -------------------------------------------------------- the configuration
\* exclusion lists, as parser['DEPLOY']['exclude'].split(',') yields them
ExcludeChoices ==
    { << <<>> >>,                                   \* exclude =      (empty value)
      << <<"*", ".", "m">> >>,                      \* exclude = *.m
      << n_s >>,                                    \* exclude = s
      << n_s, <<"*", ".", "m">> >>,                 \* exclude = s,*.m
      << n_q, <<"[", "a", "-", "c", "]", ".", "?">> >> }  \* exclude = q,[a-c].?

\* source directory lists, as parser['DEPLOY']['srcDir'].split(',') yields them
SrcDirChoices ==
    { << n_p >>,                                    \* srcDir = p
      << n_p \o <<SEP>> >>,                         \* srcDir = p/
      << Cwd \o <<SEP>> \o n_p >>,                  \* srcDir = /w/p
      << n_s >>,                                    \* srcDir = s
      << n_s, n_p >> }                              \* srcDir = s,p

\* copy-back file lists, as parser['COPY']['files'].split(',') yields them
r_t == <<"r", ".", "t">>
CopyFilesChoices ==
    { << n_p \o <<SEP>> \o f_at >>,                 \* files = p/a.t
      << r_t, n_p \o <<SEP>> \o f_at >> }           \* files = r.t,p/a.t

\* what is wrong with the invocation, if anything
Problems == {"ok", "nopath", "unreadable", "noDEPLOY", "noSERVER", "noRUN", "noCOPY"}

Config(pr, c, r, b, s, e, f) ==
    [problem |-> pr, copy |-> c, run |-> r, copyback |-> b,
     destDir |-> n_d, srcDir |-> s, exclude |-> e,
     runDir |-> n_p, runCmd |-> << <<"m">>, <<"t">> >>,
     files |-> f, destDirLocal |-> <<"g">>]

\* the invocations: every source list with every exclusion list for the copy
\* phase alone, every choice of phases for one source list, and every
\* defective invocation with every choice of phases
Configs ==
    { Config("ok", TRUE, FALSE, FALSE, s, e, << r_t >>) :
        s \in SrcDirChoices, e \in ExcludeChoices }
    \cup
    { Config("ok", c, r, b, << n_s, n_p >>, << n_s, <<"*", ".", "m">> >>, f) :
        c \in BOOLEAN, r \in BOOLEAN, b \in BOOLEAN, f \in CopyFilesChoices }
    \cup
    { Config(pr, c, r, b, << n_s >>, << n_q >>, << r_t >>) :
        pr \in Problems \ {"ok"}, c \in BOOLEAN, r \in BOOLEAN, b \in BOOLEAN }

\* ------------------------------------------------------------------- state
VARIABLES
    cfg,          \* command line flags and configuration file of the invocation
    runIdx,       \* number of the current invocation of main
    prev,         \* how the previous invocation ended
    pc,           \* position of main / deploy
    err,          \* the exception that ended main, "none" otherwise
    ssh,          \* the session: "none", "open", "closed"
    sftp,         \* number of sftp channels opened and not closed
    di,           \* index of the source directory being deployed
    destDirD,     \* deploy: destDir after line 49
    srcAbs,       \* deploy: srcDir after line 50
    stack,        \* os.walk: directories still to be yielded
    dirpath,      \* deploy: directory being processed
    remotePath,   \* deploy: its remote counterpart
    fi,           \* deploy: index of the next filename of dirpath
    sumFiles,     \* deploy: files copied so far
    ci,           \* index of the copy-back file being fetched
    runRet,       \* what runRemote returned, <<>> before
    remoteDirs,   \* remote file system: directories
    remoteFiles,  \* remote file system: files
    localGot,     \* local files written by copy-back
    log,          \* remote operations issued by this invocation, in order
    printed,      \* lines printed to the operator by this invocation
    faults        \* transport faults injected so far

vars == <<cfg, runIdx, prev, pc, err, ssh, sftp, di, destDirD, srcAbs, stack,
          dirpath, remotePath, fi, sumFiles, ci, runRet, remoteDirs,
          remoteFiles, localGot, log, printed, faults>>

deployVars == <<di, destDirD, srcAbs, stack, dirpath, remotePath, fi, sumFiles>>
remoteVars == <<remoteDirs, remoteFiles>>
runVars == <<cfg, runIdx, prev>>

NoPrev == [outcome |-> "none", puts |-> {}, counts |-> <<>>, dirs |-> {}, files |-> {}]

Init ==
    /\ cfg \in Configs
    /\ runIdx = 1
    /\ prev = NoPrev
    /\ pc = "start"
    /\ err = "none"
    /\ ssh = "none"
    /\ sftp = 0
    /\ di = 0
    /\ destDirD = <<>>
    /\ srcAbs = <<>>
    /\ stack = <<>>
    /\ dirpath = <<>>
    /\ remotePath = <<>>
    /\ fi = 0
    /\ sumFiles = 0
    /\ ci = 0
    /\ runRet = <<>>
    /\ remoteDirs \in { {<<>>}, {<<>>, <<n_d>>} }
    /\ remoteFiles = {}
    /\ localGot = {}
    /\ log = <<>>
    /\ printed = <<>>
    /\ faults = 0

\* ----------------------------------------------------------------- helpers
\* the exception is swallowed inside deploy, which goes on to its summary
Abort_toSummary(e) == pc' = "deploy_end" /\ err' = e

\* an exception that nothing catches ends main
Abort(e) == pc' = "aborted" /\ err' = e

Logged(op, path, res, d) == Append(log, [op |-> op, path |-> path, res |-> res, d |-> d])

FaultPossible == faults < MaxFaults

\* the session closed before the copy-back phase
PhaseOrder_closeEarly == <<"copy", "run", "close", "copyback", "print">>

\* the order in which main runs its phases after connect (lines 149-179)
PhaseOrder == <<"copy", "run", "copyback", "close", "print">>

NextPhase(p) ==
    LET i == CHOOSE k \in 1..Len(PhaseOrder) : PhaseOrder[k] = p
    IN IF i = Len(PhaseOrder) THEN "done" ELSE PhaseOrder[i + 1]

\* directory names tested with fnmatch, as the file names are
IsExcludedDir_glob(d, exclude) == \E i \in 1..Len(exclude) : fnmatch(d, exclude[i])

\* line 58: d not in exclude
IsExcludedDir(d, exclude) == \E i \in 1..Len(exclude) : exclude[i] = d

\* the walk descends into every subdirectory
FilterDirnames_keepAll(dirnames, exclude) == dirnames

\* line 58: dirnames[:] = [d for d in dirnames if d not in exclude]
FilterDirnames(dirnames, exclude) ==
    SelectSeq(dirnames, LAMBDA d : ~IsExcludedDir(d, exclude))

\* only the first wildcard of the list is tried
IsExcludedFile_first(filename, exclude) == fnmatch(filename, exclude[1])

\* lines 68-70: some wildcard of exclude fnmatches the filename
IsExcludedFile(filename, exclude) ==
    \E i \in 1..Len(exclude) : fnmatch(filename, exclude[i])

\* line 55: the remote counterpart of a walked directory
RemotePathOf(dest, src, dp) == join(dest, DropFirst(dp, Len(src) + 1))

\* os.walk: the kept subdirectories are walked next, before the siblings
PushChildren(dp, kept, rest) ==
    [i \in 1..Len(kept) |-> join(dp, kept[i])] \o rest

\* mkdir issued although the listing succeeded
OnListdirOK_mkdir == "mkdir"

\* a directory found on the remote side is taken as deployed, its files are not uploaded
OnListdirOK_skipFiles == "walk"

\* line 62: after listdir succeeded deploy goes on to the files (line 66)
OnListdirOK == "files"

\* the missing directory is not created
OnListdirIOError_skip == "files"

\* lines 63-64: after listdir raised IOError deploy calls mkdir
OnListdirIOError == "mkdir"

\* the counter is not advanced
CountUp_stuck(n) == n

\* line 76: sumFiles += 1
CountUp(n) == n + 1

RECURSIVE JoinWith(_, _)
JoinWith(c, parts) ==
    IF parts = <<>> THEN <<>>
    ELSE IF Len(parts) = 1 THEN Head(parts)
    ELSE Head(parts) \o <<c>> \o JoinWith(c, Tail(parts))

\* the cd is joined after the commands instead of before them
ComposeCommand_cdLast(c) ==
    JoinWith(";", c.runCmd \o << <<"c", "d", " ">> \o c.destDir \o <<"/">> \o c.runDir >>)

\* lines 160-162: ";".join(["cd " + destDir + "/" + runDir] + runCmd)
ComposeCommand(c) ==
    JoinWith(";", << <<"c", "d", " ">> \o c.destDir \o <<"/">> \o c.runDir >> \o c.runCmd)

RECURSIVE SplitOn(_, _, _, _)
SplitOn(c, s, cur, acc) ==
    IF s = <<>> THEN Append(acc, cur)
    ELSE IF Head(s) = c THEN SplitOn(c, Tail(s), <<>>, Append(acc, cur))
    ELSE SplitOn(c, Tail(s), Append(cur, Head(s)), acc)

\* the remote shell: every command of the string echoes itself on one line
RemoteStdoutLines(command) ==
    LET cmds == SplitOn(";", command, <<>>, <<>>)
    IN [i \in 1..Len(cmds) |-> cmds[i] \o <<"\n">>]

\* lines 96-98: out = '' ; for i in stdout.readlines(): out += i
RECURSIVE ReadAll(_)
ReadAll(lines) == IF lines = <<>> THEN <<>> ELSE Head(lines) \o ReadAll(Tail(lines))

\* ------------------------------------------------------------------- main
\* lines 124-141: the config path, the file, the DEPLOY and SERVER sections
ReadConfig ==
    /\ pc = "start"
    /\ IF cfg.problem \in {"nopath", "unreadable", "noDEPLOY", "noSERVER"}
       THEN Abort("ConfigError")
       ELSE pc' = "connect" /\ err' = err
    /\ UNCHANGED <<runVars, ssh, sftp, deployVars, ci, runRet, remoteVars,
                   localGot, log, printed, faults>>

\* lines 143-147 and connect, lines 27-35
Connect ==
    /\ pc = "connect"
    /\ \/ /\ ssh' = "open"
          /\ log' = Logged("connect", <<>>, "ok", 0)
          /\ pc' = PhaseOrder[1]
          /\ UNCHANGED <<err, faults>>
       \/ /\ FaultPossible
          /\ faults' = faults + 1
          /\ Abort("ConnectionError")
          /\ UNCHANGED <<ssh, log>>
    /\ UNCHANGED <<runVars, sftp, deployVars, ci, runRet, remoteVars,
                   localGot, printed>>

\* lines 149-150
CopyPhase ==
    /\ pc = "copy"
    /\ IF cfg.copy
       THEN /\ printed' = Append(printed, [what |-> "Deploy ..."])
            /\ di' = 1
            /\ pc' = "deploy"
       ELSE /\ pc' = NextPhase("copy")
            /\ UNCHANGED <<printed, di>>
    /\ UNCHANGED <<runVars, err, ssh, sftp, destDirD, srcAbs, stack, dirpath,
                   remotePath, fi, sumFiles, ci, runRet, remoteVars, localGot,
                   log, faults>>

\* the top directory is tested against the exclusion list like its subdirectories
WalkTop_filtered(top, exclude) ==
    IF IsLocalDir(top) /\ ~IsExcludedDir(basename(top), exclude) THEN <<top>> ELSE <<>>

\* line 54: os.walk(srcDir) starts with srcDir itself when it is a directory;
\* the exclusion list is not consulted for it
WalkTop(top, exclude) == IF IsLocalDir(top) THEN <<top>> ELSE <<>>

\* lines 151-153 and 47-52: next source directory, open the channel
DeployStart ==
    /\ pc = "deploy"
    /\ IF di > Len(cfg.srcDir)
       THEN /\ pc' = NextPhase("copy")
            /\ UNCHANGED <<err, sftp, destDirD, srcAbs, stack, sumFiles, log, faults>>
       ELSE \/ /\ sftp' = sftp + 1
               /\ log' = Logged("open_sftp", <<>>, "ok", di)
               /\ destDirD' = join(cfg.destDir, basename(cfg.srcDir[di]))
               /\ srcAbs' = abspath(cfg.srcDir[di])
               /\ sumFiles' = 0
               /\ stack' = WalkTop(srcAbs', cfg.exclude)
               /\ pc' = "walk"
               /\ UNCHANGED <<err, faults>>
            \/ /\ FaultPossible
               /\ faults' = faults + 1
               /\ log' = Logged("open_sftp", <<>>, "fault", di)
               /\ Abort("TransferError")
               /\ UNCHANGED <<sftp, destDirD, srcAbs, stack, sumFiles>>
    /\ UNCHANGED <<runVars, ssh, di, dirpath, remotePath, fi, ci, runRet,
                   remoteVars, localGot, printed>>

\* lines 54-58: os.walk yields the next directory, its subdirectories are filtered
Walk ==
    /\ pc = "walk"
    /\ IF stack = <<>>
       THEN /\ pc' = "deploy_end"
            /\ UNCHANGED <<stack, dirpath, remotePath>>
       ELSE /\ dirpath' = Head(stack)
            /\ remotePath' = RemotePathOf(destDirD, srcAbs, dirpath')
            /\ stack' = PushChildren(dirpath',
                                     FilterDirnames(LocalDirnames(dirpath'), cfg.exclude),
                                     Tail(stack))
            /\ pc' = "listdir"
    /\ UNCHANGED <<runVars, err, ssh, sftp, di, destDirD, srcAbs, fi, sumFiles,
                   ci, runRet, remoteVars, localGot, log, printed, faults>>

\* lines 61-63: sftp.listdir(remotePath), IOError is caught
Listdir ==
    /\ pc = "listdir"
    /\ \/ /\ IF RemoteNode(remotePath) \in remoteDirs
             THEN /\ log' = Logged("listdir", remotePath, "ok", di)
                  /\ pc' = OnListdirOK
             ELSE /\ log' = Logged("listdir", remotePath, "absent", di)
                  /\ pc' = OnListdirIOError
          /\ UNCHANGED <<err, faults>>
       \/ /\ FaultPossible    \* the server answers with an error status: IOError
          /\ faults' = faults + 1
          /\ log' = Logged("listdir", remotePath, "fault", di)
          /\ pc' = OnListdirIOError
          /\ UNCHANGED err
       \/ /\ FaultPossible    \* the connection drops: EOFError / SSHException
          /\ faults' = faults + 1
          /\ log' = Logged("listdir", remotePath, "fault", di)
          /\ Abort("TransferError")
    /\ fi' = 1
    /\ UNCHANGED <<runVars, ssh, sftp, di, destDirD, srcAbs, stack, dirpath,
                   remotePath, sumFiles, ci, runRet, remoteVars, localGot, printed>>

\* line 64: sftp.mkdir(remotePath), one level, fails when the parent is
\* missing or the path exists
Mkdir ==
    /\ pc = "mkdir"
    /\ LET node == RemoteNode(remotePath) IN
       \/ /\ IF /\ ParentNode(node) \in remoteDirs
                /\ node \notin remoteDirs
                /\ node \notin remoteFiles
             THEN /\ remoteDirs' = remoteDirs \cup {node}
                  /\ log' = Logged("mkdir", remotePath, "ok", di)
                  /\ pc' = "files"
                  /\ err' = err
             ELSE /\ log' = Logged("mkdir", remotePath, "error", di)
                  /\ Abort("TransferError")
                  /\ UNCHANGED remoteDirs
          /\ UNCHANGED faults
       \/ /\ FaultPossible
          /\ faults' = faults + 1
          /\ log' = Logged("mkdir", remotePath, "fault", di)
          /\ Abort("TransferError")
          /\ UNCHANGED remoteDirs
    /\ UNCHANGED <<runVars, ssh, sftp, deployVars, ci, runRet, remoteFiles,
                   localGot, printed>>

\* lines 66-76: the next filename is skipped or uploaded
Files ==
    /\ pc = "files"
    /\ LET filenames == LocalFilenames(dirpath) IN
       IF fi > Len(filenames)
       THEN /\ pc' = "walk"
            /\ UNCHANGED <<err, fi, sumFiles, remoteFiles, log, faults>>
       ELSE IF IsExcludedFile(filenames[fi], cfg.exclude)
       THEN /\ fi' = fi + 1
            /\ UNCHANGED <<pc, err, sumFiles, remoteFiles, log, faults>>
       ELSE LET to == join(remotePath, filenames[fi])
                node == RemoteNode(to)
            IN \/ /\ IF ParentNode(node) \in remoteDirs /\ node \notin remoteDirs
                     THEN /\ remoteFiles' = remoteFiles \cup {node}
                          /\ log' = Logged("put", to, "ok", di)
                          /\ sumFiles' = CountUp(sumFiles)
                          /\ fi' = fi + 1
                          /\ UNCHANGED <<pc, err>>
                     ELSE /\ log' = Logged("put", to, "error", di)
                          /\ Abort("TransferError")
                          /\ UNCHANGED <<remoteFiles, sumFiles, fi>>
                  /\ UNCHANGED faults
               \/ /\ FaultPossible
                  /\ faults' = faults + 1
                  /\ log' = Logged("put", to, "fault", di)
                  /\ Abort("TransferError")
                  /\ UNCHANGED <<remoteFiles, sumFiles, fi>>
    /\ UNCHANGED <<runVars, ssh, sftp, di, destDirD, srcAbs, stack, dirpath,
                   remotePath, ci, runRet, remoteDirs, localGot, printed>>

\* the channel is not closed
CloseChannel_leak(n) == n

\* lines 77 and 113: sftp.close()
CloseChannel(n) == n - 1

\* lines 77-79: close the channel, print the summary, back to main's loop
DeployEnd ==
    /\ pc = "deploy_end"
    /\ sftp' = CloseChannel(sftp)
    /\ log' = Logged("close_sftp", <<>>, "ok", di)
    /\ printed' = Append(printed, [what |-> "Copied", n |-> sumFiles, d |-> di])
    /\ di' = di + 1
    /\ pc' = "deploy"
    /\ UNCHANGED <<runVars, err, ssh, destDirD, srcAbs, stack, dirpath,
                   remotePath, fi, sumFiles, ci, runRet, remoteVars, localGot,
                   faults>>

\* lines 155-162 and runRemote, lines 91-104
RunPhase ==
    /\ pc = "run"
    /\ IF ~cfg.run
       THEN /\ pc' = NextPhase("run")
            /\ UNCHANGED <<err, runRet, log, printed, faults>>
       ELSE /\ printed' = Append(printed, [what |-> "Run remote command ..."])
            /\ IF cfg.problem = "noRUN"
               THEN /\ Abort("ConfigError")
                    /\ UNCHANGED <<runRet, log, faults>>
               ELSE LET command == ComposeCommand(cfg) IN
                    \/ /\ \E status \in {0, 1} :
                            runRet' = [out |-> ReadAll(RemoteStdoutLines(command)),
                                       err |-> IF status = 0 THEN <<>> ELSE <<"e", "\n">>,
                                       status |-> status]
                       /\ log' = Logged("exec_command", command, "ok", 0)
                       /\ pc' = NextPhase("run")
                       /\ UNCHANGED <<err, faults>>
                    \/ /\ FaultPossible
                       /\ faults' = faults + 1
                       /\ log' = Logged("exec_command", command, "fault", 0)
                       /\ Abort("TransferError")
                       /\ UNCHANGED runRet
    /\ UNCHANGED <<runVars, ssh, sftp, deployVars, ci, remoteVars, localGot>>

\* lines 164-168
CopybackPhase ==
    /\ pc = "copyback"
    /\ IF ~cfg.copyback
       THEN /\ pc' = NextPhase("copyback")
            /\ UNCHANGED <<err, ci, printed>>
       ELSE /\ printed' = Append(printed, [what |-> "Copy back ..."])
            /\ IF cfg.problem = "noCOPY"
               THEN Abort("ConfigError") /\ UNCHANGED ci
               ELSE pc' = "fetch" /\ ci' = 1 /\ UNCHANGED err
    /\ UNCHANGED <<runVars, ssh, sftp, deployVars, runRet, remoteVars, localGot,
                   log, faults>>

\* line 171: the remote file fetched for the entry f of the copy-back list
CopySource(c, f) == join(c.destDir, f)

\* the remote relative path is kept below the local directory
CopyDest_keepPath(c, f) == join(c.destDirLocal, f)

\* line 171: the local path it is written to
CopyDest(c, f) == join(c.destDirLocal, basename(f))

\* lines 170-171 and copyFromRemote, lines 108-113
Fetch ==
    /\ pc = "fetch"
    /\ IF ci > Len(cfg.files)
       THEN /\ pc' = NextPhase("copyback")
            /\ UNCHANGED <<err, sftp, ci, localGot, log, faults>>
       ELSE LET file == CopySource(cfg, cfg.files[ci])
                dest == CopyDest(cfg, cfg.files[ci])
                opened == Logged("open_sftp", <<>>, "ok", 0)
            IN \/ /\ IF RemoteNode(file) \in remoteFiles
                     THEN /\ localGot' = localGot \cup {dest}
                          /\ log' = opened \o
                                    << [op |-> "get", path |-> file, res |-> "ok", d |-> 0],
                                       [op |-> "close_sftp", path |-> <<>>, res |-> "ok", d |-> 0] >>
                          /\ ci' = ci + 1
                          /\ sftp' = CloseChannel(sftp + 1)
                          /\ UNCHANGED <<pc, err>>
                     ELSE /\ log' = Append(opened,
                                       [op |-> "get", path |-> file, res |-> "error", d |-> 0])
                          /\ sftp' = sftp + 1
                          /\ Abort("TransferError")
                          /\ UNCHANGED <<ci, localGot>>
                  /\ UNCHANGED faults
               \/ /\ FaultPossible
                  /\ faults' = faults + 1
                  /\ log' = Append(opened,
                                   [op |-> "get", path |-> file, res |-> "fault", d |-> 0])
                  /\ sftp' = sftp + 1
                  /\ Abort("TransferError")
                  /\ UNCHANGED <<ci, localGot>>
    /\ UNCHANGED <<runVars, ssh, deployVars, runRet, remoteVars, printed>>

\* line 173
ClosePhase ==
    /\ pc = "close"
    /\ ssh' = "closed"
    /\ log' = Logged("close", <<>>, "ok", 0)
    /\ pc' = NextPhase("close")
    /\ UNCHANGED <<runVars, err, sftp, deployVars, ci, runRet, remoteVars,
                   localGot, printed, faults>>

\* lines 175-179
PrintPhase ==
    /\ pc = "print"
    /\ IF cfg.run
       THEN printed' = printed \o << [what |-> "STDOUT", text |-> runRet.out],
                                     [what |-> "STDERR", text |-> runRet.err] >>
       ELSE UNCHANGED printed
    /\ pc' = NextPhase("print")
    /\ UNCHANGED <<runVars, err, ssh, sftp, deployVars, ci, runRet, remoteVars,
                   localGot, log, faults>>

\* the operator runs the same command line again; the remote host keeps its files
OkPuts(l) == { RemoteNode(l[i].path) : i \in { k \in 1..Len(l) : l[k].op = "put" /\ l[k].res = "ok" } }
Counts(pr) == SelectSeq(pr, LAMBDA e : e.what = "Copied")

Rerun ==
    /\ pc \in {"done", "aborted"}
    /\ runIdx < MaxRuns
    /\ runIdx' = runIdx + 1
    /\ prev' = [outcome |-> pc, puts |-> OkPuts(log), counts |-> Counts(printed),
                dirs |-> remoteDirs, files |-> remoteFiles]
    /\ pc' = "start"
    /\ err' = "none"
    /\ ssh' = "none"
    /\ sftp' = 0
    /\ di' = 0
    /\ destDirD' = <<>>
    /\ srcAbs' = <<>>
    /\ stack' = <<>>
    /\ dirpath' = <<>>
    /\ remotePath' = <<>>
    /\ fi' = 0
    /\ sumFiles' = 0
    /\ ci' = 0
    /\ runRet' = <<>>
    /\ log' = <<>>
    /\ printed' = <<>>
    /\ UNCHANGED <<cfg, remoteVars, localGot, faults>>

Next ==
    \/ ReadConfig
    \/ Connect
    \/ CopyPhase
    \/ DeployStart
    \/ Walk
    \/ Listdir
    \/ Mkdir
    \/ Files
    \/ DeployEnd
    \/ RunPhase
    \/ CopybackPhase
    \/ Fetch
    \/ ClosePhase
    \/ PrintPhase
    \/ Rerun

Spec == Init /\ [][Next]_vars

\* ------------------------------------------------------------- properties
Idx(l) == 1..Len(l)
InList(x, l) == \E i \in Idx(l) : l[i] = x
IsPrefixOf(a, b) == Len(a) <= Len(b) /\ SubSeq(b, 1, Len(a)) = a
DeployOps == {"listdir", "mkdir", "put"}
Ensured(e) == e.op \in {"listdir", "mkdir"} /\ e.res = "ok"
Finished == pc \in {"done", "aborted"}
Summaries == { printed[i] : i \in { k \in Idx(printed) : printed[k].what = "Copied" } }
NoFaultLogged == \A i \in Idx(log) : log[i].res # "fault"

\* the remote root of the d-th source directory, by fields
RootNode(d) == RemoteNode(cfg.destDir) \o
               (IF basename(cfg.srcDir[d]) = <<>> THEN <<>> ELSE <<basename(cfg.srcDir[d])>>)

\* local directories strictly below the directory src
BelowDir(src) == { e \in LocalFS : e.path # src /\ IsPrefixOf(src \o <<SEP>>, e.path) }

\* the names on the way from src down to e
RelNamesFrom(src, e) == Split(DropFirst(e.path, Len(src) + 1))

DirName(path) == LET f == Split(path) IN f[Len(f)]

\* the nodes that listdir, mkdir and put of the d-th deploy call were issued for
Touched(d) ==
    { RemoteNode(log[i].path) : i \in { k \in Idx(log) : log[k].d = d /\ log[k].op \in DeployOps } }

\* the remote nodes of the directories with an excluded name below src
ExcludedNodes(root, src) ==
    { root \o RelNamesFrom(src, e) :
        e \in { b \in BelowDir(src) : InList(DirName(b.path), cfg.exclude) } }

NoneTouched(nodes, touched) ==
    \A n \in nodes : \A t \in touched : ~IsPrefixOf(n, t)

\* C1: every put into a remote directory is preceded, in the same deploy call,
\* by a successful listdir or mkdir of that directory, the directory exists
\* while its files are uploaded, and every directory but the first of a call
\* is handled after its remote parent.
C1_DirExistsBeforePut ==
    LET node == [i \in Idx(log) |-> RemoteNode(log[i].path)]
        ensuredBefore(i, n) ==
            \E j \in 1..(i - 1) :
                Ensured(log[j]) /\ log[j].d = log[i].d /\ node[j] = n
    IN /\ pc = "files" => RemoteNode(remotePath) \in remoteDirs
       /\ \A i \in Idx(log) :
             log[i].op = "put" => ensuredBefore(i, ParentNode(node[i]))
       /\ \A i \in Idx(log) :
             log[i].op = "listdir" =>
                \/ ~\E k \in 1..(i - 1) : log[k].op = "listdir" /\ log[k].d = log[i].d
                \/ ensuredBefore(i, ParentNode(node[i]))

\* a file was uploaded two levels below the remote root into a directory
\* that this call had to create
C1_Witness ==
    \E i \in Idx(log) :
        /\ log[i].op = "put" /\ log[i].res = "ok"
        /\ Len(RemoteNode(log[i].path)) >= 4
        /\ \E j \in 1..(i - 1) :
              /\ log[j].op = "mkdir" /\ log[j].res = "ok"
              /\ RemoteNode(log[j].path) = ParentNode(RemoteNode(log[i].path))

\* C2 (as stated): for every local directory, the source root included, whose
\* name is in the exclusion list, no listdir, mkdir or put is issued for its
\* remote path or below.
C2_Original ==
    \A d \in Idx(cfg.srcDir) :
        LET touched == Touched(d)
            src == abspath(cfg.srcDir[d])
        IN touched # {} =>
              /\ InList(DirName(src), cfg.exclude) => NoneTouched({RootNode(d)}, touched)
              /\ NoneTouched(ExcludedNodes(RootNode(d), src), touched)

\* C2 (amended): within one deploy call, for every directory strictly below
\* the source root whose name is in the exclusion list, no listdir, mkdir or
\* put is issued for its remote path or for anything below it.
C2_PrunedSubtreeUntouched ==
    \A d \in Idx(cfg.srcDir) :
        LET touched == Touched(d)
        IN touched # {} =>
              NoneTouched(ExcludedNodes(RootNode(d), abspath(cfg.srcDir[d])), touched)

\* a deploy of p with 's' excluded ran to its summary: p/s, p/s/q and p/x.m/s were there to prune
C2_Witness ==
    \E su \in Summaries :
        /\ abspath(cfg.srcDir[su.d]) = Cwd \o <<SEP>> \o n_p
        /\ InList(n_s, cfg.exclude)
        /\ \E i \in Idx(log) : log[i].op = "put" /\ log[i].res = "ok" /\ log[i].d = su.d

\* the files a walk from path uploads: those matching no pattern, in path and
\* in every subdirectory whose name is not an exclusion entry
RECURSIVE ExpectedCount(_, _)
RECURSIVE ExpectedInDirs(_, _, _)
ExpectedCount(path, ex) ==
    Cardinality({ k \in Idx(LocalFilenames(path)) :
                    ~\E i \in Idx(ex) : fnmatch(LocalFilenames(path)[k], ex[i]) })
    + ExpectedInDirs(path, LocalDirnames(path), ex)
ExpectedInDirs(path, dirs, ex) ==
    IF dirs = <<>> THEN 0
    ELSE (IF InList(Head(dirs), ex) THEN 0
          ELSE ExpectedCount(path \o <<SEP>> \o Head(dirs), ex))
         + ExpectedInDirs(path, Tail(dirs), ex)

\* all files of the tree rooted at path
RECURSIVE SumFilesOf(_)
SumFilesOf(S) ==
    IF S = {} THEN 0
    ELSE LET e == CHOOSE x \in S : TRUE IN Len(e.files) + SumFilesOf(S \ {e})
TotalFiles(path) ==
    SumFilesOf({ e \in LocalFS : e.path = path \/ IsPrefixOf(path \o <<SEP>>, e.path) })

PutsOf(d) == { i \in Idx(log) : log[i].op = "put" /\ log[i].res = "ok" /\ log[i].d = d }

\* C3: the count in a deploy call's summary equals the number of puts of that
\* call and the number of local files in non-pruned directories matching no
\* pattern; with an exclusion list that matches nothing it is the number of
\* files of the tree.
C3_CountIsUploads ==
    \A su \in Summaries :
        /\ su.n = Cardinality(PutsOf(su.d))
        /\ su.n = ExpectedCount(abspath(cfg.srcDir[su.d]), cfg.exclude)
        /\ cfg.exclude = << <<>> >> => su.n = TotalFiles(abspath(cfg.srcDir[su.d]))

\* p deployed with exclude = *.m: five of its six files are counted
C3_Witness ==
    \E su \in Summaries :
        /\ cfg.exclude = << <<"*", ".", "m">> >>
        /\ abspath(cfg.srcDir[su.d]) = Cwd \o <<SEP>> \o n_p
        /\ su.n = 5

\* C4 (as stated): after a transport fault of listdir, mkdir or put the deploy
\* call uploads nothing more and prints no summary.
C4_Original ==
    \A i \in Idx(log) :
        (log[i].op \in DeployOps /\ log[i].res = "fault") =>
            /\ \A j \in (i + 1)..Len(log) : ~(log[j].op = "put" /\ log[j].res = "ok")
            /\ ~\E su \in Summaries : su.d = log[i].d

\* C5 (as stated): when main has ended and the session was opened, it is closed.
C5_Original ==
    (Finished /\ \E i \in Idx(log) : log[i].op = "connect") => ssh = "closed"

\* C6 (as stated): a configuration error never follows connect.
C6_Original ==
    err = "ConfigError" => ~\E i \in Idx(log) : log[i].op = "connect"

IsPhaseOp(e) == e.op # "connect"
IsDeployEntry(e) == e.d > 0

\* C7: the session is opened once, before every other operation; deploy
\* calls run in configuration order and all end before exec_command; the
\* command returns before the first get; close is the last operation and
\* comes when every enabled phase is through.
C7_PhaseOrder ==
    /\ \A i \in Idx(log) : (log[i].op = "connect") <=> (i = 1)
    /\ \A i \in Idx(log) : \A j \in (i + 1)..Len(log) :
          /\ (IsDeployEntry(log[i]) /\ IsDeployEntry(log[j])) => log[i].d <= log[j].d
          /\ log[i].op = "exec_command" => ~IsDeployEntry(log[j])
          /\ log[i].op = "get" => ~IsDeployEntry(log[j]) /\ log[j].op # "exec_command"
          /\ log[i].op # "close"
    /\ \A i \in Idx(log) :
          log[i].op \in {"exec_command", "get", "close"} =>
             (cfg.copy => \A d \in Idx(cfg.srcDir) : \E su \in Summaries : su.d = d)
    /\ \A i \in Idx(log) :
          log[i].op \in {"get", "close"} => (cfg.run => runRet # <<>>)
    /\ \A i \in Idx(log) :
          log[i].op = "close" =>
             (cfg.copyback =>
                 Cardinality({ k \in Idx(log) : log[k].op = "get" /\ log[k].res = "ok" })
                   = Len(cfg.files))
    /\ pc = "done" => (ssh = "closed" /\ log[Len(log)].op = "close")
    /\ ssh = "closed" => \E i \in Idx(log) : log[i].op = "close"

\* main ended normally with the three phases enabled and two source directories
C7_Witness ==
    /\ pc = "done" /\ cfg.copy /\ cfg.run /\ cfg.copyback
    /\ Len(cfg.srcDir) = 2
    /\ \E i \in Idx(log) : log[i].op = "get" /\ log[i].res = "ok"

\* C8 (as stated): when main has ended and runRemote had returned, STDOUT and
\* STDERR were printed.
C8_Original ==
    (Finished /\ runRet # <<>>) =>
        /\ \E i \in Idx(printed) : printed[i].what = "STDOUT"
        /\ \E i \in Idx(printed) : printed[i].what = "STDERR"

DeployFailed == pc = "aborted" /\ log # <<>> /\ log[Len(log)].d > 0

\* C9: in an invocation that follows one which deployed to the end, with no
\* transport fault, every listdir succeeds, mkdir is not called and no deploy
\* call fails.
C9_SecondRunNoMkdir ==
    (runIdx >= 2 /\ prev.outcome = "done" /\ cfg.copy /\ NoFaultLogged) =>
        /\ \A i \in Idx(log) : log[i].op = "listdir" => log[i].res = "ok"
        /\ \A i \in Idx(log) : log[i].op # "mkdir"
        /\ ~DeployFailed

\* the second invocation deployed every source directory, nested ones listed
C9_Witness ==
    /\ runIdx = 2 /\ prev.outcome = "done" /\ cfg.copy /\ NoFaultLogged
    /\ \A d \in Idx(cfg.srcDir) : \E su \in Summaries : su.d = d
    /\ \E i \in Idx(log) : log[i].op = "listdir" /\ Len(RemoteNode(log[i].path)) >= 4

\* the remote directories a walk of the d-th source root has to visit: the
\* root and every directory below it none of whose names, from the root
\* down, is literally an exclusion entry
ExpectedVisited(d) ==
    LET src == abspath(cfg.srcDir[d])
        root == RootNode(d)
    IN {root} \cup
       { root \o RelNamesFrom(src, e) :
           e \in { b \in BelowDir(src) :
                     \A k \in Idx(RelNamesFrom(src, b)) :
                        ~InList(RelNamesFrom(src, b)[k], cfg.exclude) } }

Listed(d) == { RemoteNode(log[i].path) : i \in { k \in Idx(log) : log[k].op = "listdir" /\ log[k].d = d } }

\* C10: a subdirectory is left out of the walk exactly when its name is
\* literally an exclusion entry: every directory a deploy call lists has no
\* entry among its names, and when the call reaches its summary it has
\* listed all such directories, whatever the entries glob-match.
C10_LiteralDirExclusion ==
    /\ (log # <<>> /\ log[Len(log)].op = "listdir") =>
          RemoteNode(log[Len(log)].path) \in ExpectedVisited(log[Len(log)].d)
    /\ \A su \in Summaries : Listed(su.d) = ExpectedVisited(su.d)

\* with exclude = *.m the directory p/x.m and its subdirectory were listed
C10_Witness ==
    /\ InList(<<"*", ".", "m">>, cfg.exclude)
    /\ \E su \in Summaries :
          /\ RootNode(su.d) \o <<n_xm>> \in Listed(su.d)
          /\ fnmatch(n_xm, <<"*", ".", "m">>)

\* the exclusion entries as a set: their order is forgotten
ExcludeSet == { cfg.exclude[i] : i \in Idx(cfg.exclude) }
GlobMatched(f) == \E pat \in ExcludeSet : fnmatch(f, pat)
LastOf(s) == s[Len(s)]

\* the local directories a walk of src visits: src and the directories below
\* it with no exclusion entry among their names
VisitedDirs(src) ==
    { e \in LocalFS :
        \/ e.path = src
        \/ /\ e \in BelowDir(src)
           /\ \A k \in Idx(RelNamesFrom(src, e)) : ~InList(RelNamesFrom(src, e)[k], cfg.exclude) }

\* remote nodes of the files of the visited directories that no entry glob-matches
ExpectedPuts(d) ==
    LET src == abspath(cfg.srcDir[d])
        root == RootNode(d)
    IN UNION { { root \o (IF e.path = src THEN <<>> ELSE RelNamesFrom(src, e)) \o <<e.files[k]>> :
                   k \in { j \in Idx(e.files) : ~GlobMatched(e.files[j]) } } :
               e \in VisitedDirs(src) }

PutNodes(d) == { RemoteNode(log[i].path) : i \in PutsOf(d) }

\* C11: a file of a visited directory is uploaded exactly when no exclusion
\* entry glob-matches its name: every put is of an unmatched name, a deploy
\* call that reaches its summary has put every unmatched file, the result is
\* a function of the set of entries, and with only the empty entry every
\* file of the tree is put.
C11_FileSkippedIffGlobMatch ==
    /\ (log # <<>> /\ LastOf(log).op = "put") =>
          ~GlobMatched(LastOf(RemoteNode(LastOf(log).path)))
    /\ \A su \in Summaries :
          /\ PutNodes(su.d) = ExpectedPuts(su.d)
          /\ ExcludeSet = { <<>> } =>
                Cardinality(PutNodes(su.d)) = TotalFiles(abspath(cfg.srcDir[su.d]))

\* p deployed with exclude = q,[a-c].? : a.t is skipped by the second entry, x.m/d.t is put
C11_Witness ==
    /\ cfg.exclude = << n_q, <<"[", "a", "-", "c", "]", ".", "?">> >>
    /\ \E su \in Summaries :
          /\ RootNode(su.d) \o <<n_xm, f_dt>> \in PutNodes(su.d)
          /\ RootNode(su.d) \o <<f_at>> \notin PutNodes(su.d)
          /\ abspath(cfg.srcDir[su.d]) = Cwd \o <<SEP>> \o n_p

\* the remote root the d-th source directory is meant to get: the
\* destination root followed by the name of the local directory
NamedRoot(d) == RemoteNode(cfg.destDir) \o <<DirName(abspath(cfg.srcDir[d]))>>

\* the names from the walked root srcAbs down to the directory dp
RelOf(dp) == IF dp = srcAbs THEN <<>> ELSE Split(DropFirst(dp, Len(srcAbs) + 1))

\* C12 (as stated): every remote path deploy lists, creates or writes lies
\* under destDir/<name of the source directory>, and the file f of the local
\* directory localRoot/rel is put at destDir/<name>/rel/f, whatever the form
\* of the configured source path.
C12_Original ==
    /\ \A i \in Idx(log) :
          log[i].op \in DeployOps =>
             IsPrefixOf(NamedRoot(log[i].d), RemoteNode(log[i].path))
    /\ (log # <<>> /\ LastOf(log).op = "put" /\ pc \in {"files", "walk", "aborted"}) =>
          LET node == RemoteNode(LastOf(log).path)
          IN node = NamedRoot(LastOf(log).d) \o RelOf(dirpath) \o <<LastOf(node)>>

ExecEntries == { i \in Idx(log) : log[i].op = "exec_command" }

\* 'cd <destDir>/<runDir>' with ';<cmd>' appended for every configured command, in order
RECURSIVE WithCommands(_, _)
WithCommands(acc, cmds) ==
    IF cmds = <<>> THEN acc ELSE WithCommands(acc \o <<";">> \o Head(cmds), Tail(cmds))
ExpectedCommand == WithCommands(<<"c", "d", " ">> \o cfg.destDir \o <<"/">> \o cfg.runDir, cfg.runCmd)

\* the lines the remote shell writes for the cd and the configured commands, in order
RECURSIVE LinesInOrder(_, _)
LinesInOrder(acc, cmds) ==
    IF cmds = <<>> THEN acc ELSE LinesInOrder(acc \o Head(cmds) \o <<"\n">>, Tail(cmds))
ExpectedOut ==
    LinesInOrder(<<>>, << <<"c", "d", " ">> \o cfg.destDir \o <<"/">> \o cfg.runDir >> \o cfg.runCmd)

\* C13: an invocation issues at most one exec_command, exactly one once the
\* run phase is through; its command string is the cd followed by the
\* configured commands in order, joined by ';'; the returned stdout is the
\* output lines in the order they were written.
C13_OneComposedCommand ==
    /\ Cardinality(ExecEntries) <= 1
    /\ \A i \in ExecEntries : log[i].path = ExpectedCommand
    /\ (cfg.run /\ pc \in {"copyback", "fetch", "close", "print", "done"}) =>
          \E i \in ExecEntries : log[i].res = "ok"
    /\ runRet # <<>> =>
          /\ \E i \in ExecEntries : log[i].res = "ok"
          /\ runRet.out = ExpectedOut

\* runRemote returned for 'cd d/p;m;t' with the three output lines
C13_Witness ==
    /\ runRet # <<>>
    /\ \E i \in ExecEntries :
          log[i].path = <<"c", "d", " ", "d", "/", "p", ";", "m", ";", "t">>
    /\ runRet.out = <<"c", "d", " ", "d", "/", "p", "\n", "m", "\n", "t", "\n">>

GetEntries == { i \in Idx(log) : log[i].op = "get" }
GetsUpTo(i) == Cardinality({ k \in GetEntries : k <= i })
OkGets == Cardinality({ k \in GetEntries : log[k].res = "ok" })

C14_WitnessAbort ==
    /\ Len(cfg.files) = 2
    /\ \E i \in GetEntries : log[i].res = "error"

\* C15: an invocation that deploys to the end after one that did, with no
\* transport fault, performs the same puts, prints the same counts and leaves
\* the remote tree as the previous invocation left it, although every file
\* was there already.
C15_FullMirror ==
    (runIdx >= 2 /\ prev.outcome = "done" /\ pc = "done" /\ cfg.copy /\ NoFaultLogged) =>
        /\ OkPuts(log) = prev.puts
        /\ Counts(printed) = prev.counts
        /\ remoteDirs = prev.dirs
        /\ remoteFiles = prev.files

\* the second invocation uploaded again files that the first had left on the remote side
C15_Witness ==
    /\ runIdx = 2 /\ prev.outcome = "done" /\ pc = "done" /\ cfg.copy /\ NoFaultLogged
    /\ Cardinality(OkPuts(log)) >= 3
    /\ OkPuts(log) \subseteq prev.files

\* C16: a mkdir or put that fails is the last remote operation of the
\* invocation: main has ended with the exception, no summary was printed for
\* that source directory or a later one, and nothing of the remaining source
\* directories, the remote command or the copy-back was issued.
C16_DeployFailureStopsMain ==
    \A i \in Idx(log) :
        (log[i].op \in {"mkdir", "put"} /\ log[i].res # "ok") =>
            /\ i = Len(log)
            /\ pc = "aborted"
            /\ \A su \in Summaries : su.d < log[i].d

\* the put of the first of two source directories failed with the run and
\* copy-back phases enabled
C16_Witness ==
    /\ log # <<>> /\ LastOf(log).op = "put" /\ LastOf(log).res # "ok"
    /\ LastOf(log).d = 1 /\ Len(cfg.srcDir) = 2
    /\ cfg.run /\ cfg.copyback
    /\ pc = "aborted"

OpenedChannels == Cardinality({ i \in Idx(log) : log[i].op = "open_sftp" /\ log[i].res = "ok" })
ClosedChannels == Cardinality({ i \in Idx(log) : log[i].op = "close_sftp" })

\* C17: at most one channel is open; outside deploy and copyFromRemote, so
\* also when the session is closed, none is; when main ended by a failing
\* listdir, mkdir, put or get, the channel of that call is still open.
C17_ChannelsOneAtATime ==
    /\ sftp \in {0, 1}
    /\ sftp = OpenedChannels - ClosedChannels
    /\ pc \in {"start", "connect", "copy", "deploy", "run", "copyback", "fetch",
               "close", "print", "done"} => sftp = 0
    /\ ssh = "closed" => sftp = 0
    /\ (pc = "aborted" /\ log # <<>> /\ LastOf(log).op \in {"listdir", "mkdir", "put", "get"}) =>
          sftp = 1

\* three channels were opened and closed one after the other before the session was closed
C17_Witness ==
    /\ ssh = "closed" /\ sftp = 0
    /\ OpenedChannels >= 3 /\ ClosedChannels = OpenedChannels

\* main ended by a failing get with its channel open
C17_WitnessLeak ==
    /\ pc = "aborted" /\ log # <<>> /\ LastOf(log).op = "get" /\ sftp = 1

BaseNode == RemoteNode(cfg.destDir)

\* C18 (as stated): mkdir creates one level, below a destination root that
\* exists: deploy never creates the destination root itself, and while the
\* root is missing a mkdir fails and ends main, nothing has been uploaded and
\* no directory has been created.
C18_Original ==
    /\ \A i \in Idx(log) :
          (log[i].op = "mkdir" /\ log[i].res = "ok") =>
             (RemoteNode(log[i].path) # BaseNode /\ IsPrefixOf(BaseNode, RemoteNode(log[i].path)))
    /\ BaseNode \notin remoteDirs =>
          /\ remoteFiles = {} /\ remoteDirs = { <<>> }
          /\ \A i \in Idx(log) :
                log[i].op = "mkdir" => (log[i].res # "ok" /\ i = Len(log) /\ pc = "aborted")
          /\ \A i \in Idx(log) : log[i].op # "put"

\* C19: a deploy call that reaches its summary has listed the remote
\* counterpart of the source root, which exists, and has put every file of
\* the root that no entry glob-matches, whether or not the name of the root
\* is an exclusion entry.
C19_RootNeverExcluded ==
    \A su \in Summaries :
        LET src == abspath(cfg.srcDir[su.d])
            root == RootNode(su.d)
            puts == PutNodes(su.d)
        IN /\ root \in Listed(su.d)
           /\ root \in remoteDirs
           /\ \A k \in Idx(LocalFilenames(src)) :
                 ~GlobMatched(LocalFilenames(src)[k]) => root \o <<LocalFilenames(src)[k]>> \in puts

\* srcDir = s with 's' in the exclusion list: d/s was listed and s/f.t put at d/s/f.t
C19_Witness ==
    /\ InList(n_s, cfg.exclude)
    /\ \E su \in Summaries :
          /\ cfg.srcDir[su.d] = n_s
          /\ <<n_d, n_s>> \in Listed(su.d)
          /\ <<n_d, n_s, f_ft>> \in PutNodes(su.d)
====
